---- MODULE Spec2Model ----
(***************************************************************************)
(* Model of codeintel-input-sanitization-checker (src/main.py): the        *)
(* command-line orchestrator main() and the invocation mapper run_tool().  *)
(*                                                                         *)
(* Spec      one run of main(), from argument parsing to process exit.     *)
(* FairSpec  the runs of main with at most one ignore path, with weak      *)
(*           fairness of every step (each step of the single-threaded      *)
(*           program, and each external process, ends).                    *)
(* ToolSpec  one direct call of run_tool() with arbitrary arguments.       *)
(***************************************************************************)
EXTENDS Integers, Sequences, FiniteSets, TLC

VARIABLES
    argvOK,      \* whether argparse accepts the command line (main, line 145)
    args,        \* the parsed namespace: target, tools, ignore, output, offensive
    pc,          \* position of the program
    i,           \* index into args.tools of the for loop of main (line 157)
    results,     \* the dict `results` of main (line 156)
    call,        \* the arguments of the current run_tool call
    command,     \* the list `command` of run_tool (line 43)
    exc,         \* the exception pending in run_tool's try block, if any
    ret,         \* what run_tool handed back to its caller
    procs,       \* the external processes that are live
    popens,      \* history: the command of every subprocess.Popen call
    calls,       \* history: the tool of every run_tool call made by main
    history,     \* history: every (tool, result) main received from run_tool
    file,        \* content of the file at args.output, as the sequence of writes
    stdout,      \* what main printed to standard output
    ioError,     \* whether opening the output file raised IOError
    exitStatus   \* <<>> while running, <<status>> once the process has exited

vars == <<argvOK, args, pc, i, results, call, command, exc, ret, procs, popens,
          calls, history, file, stdout, ioError, exitStatus>>

----------------------------------------------------------------------------
(* Bounds of the model. *)

\* longest --tools list
MaxTools == 2
\* longest --ignore list
MaxIgnore == 2

----------------------------------------------------------------------------
(* Inputs and environment. *)

\* valid_tools of validate_tools
ValidTools == <<"bandit", "flake8", "pylint">>

\* the tool names a user may pass: the supported ones and an unsupported one
ToolNames == {"bandit", "flake8", "pylint", "mypy"}

\* the paths of the file system that exist (os.path.exists)
FileSystem == {"proj", "tests", "docs"}

Targets == {"proj", "absent"}

IgnorePaths == {"tests", "docs", "gone"}

\* "" stands for an output path that is None or empty: every use in the code
\* is a truthiness test (lines 51, 59, 65, 168)
Outputs == {"", "report.txt"}

\* the (returncode, stdout, stderr) an external tool can end with
ProcessOutcomes ==
    { [return_code |-> 0, stdout |-> "", stderr |-> ""],
      [return_code |-> 1, stdout |-> "findings", stderr |-> "warning"] }

\* what subprocess.Popen can do: start the process, or raise
LaunchOutcomes == {"started", "FileNotFoundError", "PermissionError"}

Range(s) == {s[k] : k \in 1..Len(s)}

SeqsUpTo(S, n) == UNION {[1..k -> S] : k \in 0..n}

RECURSIVE Repeat(_, _)
\* Python's str * int
Repeat(s, n) == IF n <= 0 THEN "" ELSE s \o Repeat(s, n - 1)

RECURSIVE Join_TrailingSep(_, _)
\* mutant of Join: the separator is written after every element
Join_TrailingSep(sep, list) ==
    IF Len(list) = 0 THEN ""
    ELSE list[1] \o sep \o Join_TrailingSep(sep, Tail(list))

RECURSIVE Join(_, _)
\* Python's sep.join(list)
Join(sep, list) ==
    IF Len(list) = 0 THEN ""
    ELSE IF Len(list) = 1 THEN list[1]
    ELSE list[1] \o sep \o Join(sep, Tail(list))

RECURSIVE Concat(_)
\* the concatenation of a sequence of sequences
Concat(ss) == IF Len(ss) = 0 THEN <<>> ELSE Head(ss) \o Concat(Tail(ss))

----------------------------------------------------------------------------
(* run_tool: the command line. *)

\* the rule list of line 47
OffensiveRules == "B101,B301,B603,B605,B608"

\* lines 45-52
BanditCommand(target, ignore, output, offensive) ==
    <<"bandit", "-r", target, "-q">>
    \o (IF offensive THEN <<"-s", OffensiveRules>> ELSE <<>>)
    \o (IF Len(ignore) > 0
        THEN Concat([k \in 1..Len(ignore) |-> <<"-x", ignore[k]>>])
        ELSE <<>>)
    \o (IF output # "" THEN <<"-o", output, "-f", "txt">> ELSE <<>>)

\* lines 55-60
Flake8Command(target, ignore, output, offensive) ==
    <<"flake8", target>>
    \o (IF Len(ignore) > 0 THEN <<"--exclude", Join(",", ignore)>> ELSE <<>>)
    \o (IF output # "" THEN <<"--output-file", output>> ELSE <<>>)

\* mutant of PylintCommand: the offensive flag widens pylint's checks too
PylintCommand_Offensive(target, ignore, output, offensive) ==
    <<"pylint", target, "--disable=all", "--enable=security", "--reports=n">>
    \o (IF offensive THEN <<"--enable=all">> ELSE <<>>)
    \o (IF Len(ignore) > 0 THEN <<"--ignore", Join(",", ignore)>> ELSE <<>>)
    \o (IF output # "" THEN <<"--output", output>> ELSE <<>>)

\* lines 62-66
PylintCommand(target, ignore, output, offensive) ==
    <<"pylint", target, "--disable=all", "--enable=security", "--reports=n">>
    \o (IF Len(ignore) > 0 THEN <<"--ignore", Join(",", ignore)>> ELSE <<>>)
    \o (IF output # "" THEN <<"--output", output>> ELSE <<>>)

\* lines 44-66: the command of a supported tool
BuildCommand(tool, target, ignore, output, offensive) ==
    IF tool = "bandit" THEN BanditCommand(target, ignore, output, offensive)
    ELSE IF tool = "flake8" THEN Flake8Command(target, ignore, output, offensive)
    ELSE PylintCommand(target, ignore, output, offensive)

\* the tools the if/elif chain of run_tool has a branch for
Supported(tool) == tool \in {"bandit", "flake8", "pylint"}

----------------------------------------------------------------------------
(* run_tool: exceptions and results. *)

NoExc == [type |-> "", msg |-> ""]

\* line 69
UnsupportedError(tool) ==
    [type |-> "ValueError", msg |-> "Unsupported tool: " \o tool]

\* what Popen raises when it cannot start the executable: an OSError whose
\* str() is "[Errno n] strerror: 'filename'"
LaunchError(type, executable) ==
    [type |-> type,
     msg |-> (IF type = "FileNotFoundError"
              THEN "[Errno 2] No such file or directory: '"
              ELSE "[Errno 13] Permission denied: '") \o executable \o "'"]

\* the exception classes of the model that derive from Exception
IsException(type) == type \in {"ValueError", "FileNotFoundError", "PermissionError"}

NoRet == [kind |-> "none", return_code |-> 0, stdout |-> "", stderr |-> ""]

Returned(rc, out, err) ==
    [kind |-> "return", return_code |-> rc, stdout |-> out, stderr |-> err]

Raised(e) == [kind |-> "raise", return_code |-> 0, stdout |-> "", stderr |-> e.msg]

\* mutant of HandleException: only FileNotFoundError is handled
HandleException_Reraise(e) ==
    IF e.type = "FileNotFoundError" THEN Returned(1, "", e.msg)
    ELSE Raised(e)

\* lines 82-87: the two handlers of run_tool's try block
HandleException(e) ==
    IF e.type = "FileNotFoundError" THEN Returned(1, "", e.msg)
    ELSE IF IsException(e.type) THEN Returned(1, "", e.msg)
    ELSE Raised(e)

\* the report a tool writes to the path it was given
NativeReport(tool) == "report of " \o tool

NoCall == [tool |-> "", target |-> "", ignore |-> <<>>, output |-> "",
           offensive |-> FALSE]

\* lines 42-69: the if/elif chain that builds the command, or raises
RunToolBuild ==
    /\ pc = "build"
    /\ IF Supported(call.tool)
       THEN /\ command' = BuildCommand(call.tool, call.target, call.ignore,
                                       call.output, call.offensive)
            /\ pc' = "popen"
            /\ exc' = exc
       ELSE /\ exc' = UnsupportedError(call.tool)
            /\ pc' = "except"
            /\ command' = command
    /\ UNCHANGED <<argvOK, args, i, results, call, ret, procs, popens, calls,
                   history, file, stdout, ioError, exitStatus>>

\* lines 71-72: subprocess.Popen(command, ...)
Popen ==
    /\ pc = "popen"
    /\ popens' = Append(popens, command)
    /\ \E o \in LaunchOutcomes :
         IF o = "started"
         THEN /\ procs' = procs \cup {[id |-> Len(popens) + 1, command |-> command]}
              /\ pc' = "communicate"
              /\ exc' = exc
         ELSE /\ exc' = LaunchError(o, command[1])
              /\ pc' = "except"
              /\ procs' = procs
    /\ UNCHANGED <<argvOK, args, i, results, call, command, ret, calls, history,
                   file, stdout, ioError, exitStatus>>

\* mutant of Communicate: the result is taken without waiting for the
\* process, which stays live
Communicate_NoWait ==
    /\ pc = "communicate"
    /\ \E o \in ProcessOutcomes :
         ret' = Returned(o.return_code, o.stdout, o.stderr)
    /\ procs' = procs
    /\ file' = IF call.output # "" THEN <<NativeReport(call.tool)>> ELSE file
    /\ pc' = "return"
    /\ UNCHANGED <<argvOK, args, i, results, call, command, exc, popens, calls,
                   history, stdout, ioError, exitStatus>>

\* lines 73-80: process.communicate() waits for the process to end; the tool
\* has written its own report to the output path it was given
Communicate ==
    /\ pc = "communicate"
    /\ \E o \in ProcessOutcomes :
         ret' = Returned(o.return_code, o.stdout, o.stderr)
    /\ procs' = {p \in procs : p.id # Len(popens)}
    /\ file' = IF call.output # "" THEN <<NativeReport(call.tool)>> ELSE file
    /\ pc' = "return"
    /\ UNCHANGED <<argvOK, args, i, results, call, command, exc, popens, calls,
                   history, stdout, ioError, exitStatus>>

\* lines 82-87: the except clauses
Except ==
    /\ pc = "except"
    /\ ret' = HandleException(exc)
    /\ exc' = NoExc
    /\ pc' = "return"
    /\ UNCHANGED <<argvOK, args, i, results, call, command, procs, popens, calls,
                   history, file, stdout, ioError, exitStatus>>

----------------------------------------------------------------------------
(* main. *)

\* validate_target
validate_target(target) == target \in FileSystem

\* validate_tools
validate_tools(tools) == \A k \in 1..Len(tools) : tools[k] \in Range(ValidTools)

\* validate_ignore_paths
validate_ignore_paths(ignore_paths) ==
    \A k \in 1..Len(ignore_paths) : ignore_paths[k] \in FileSystem

\* sys.exit(status), and the normal end of main (status 0)
Exit(status) ==
    /\ pc' = "exit"
    /\ exitStatus' = <<status>>

\* lines 144-145: argparse ends the process with status 2 on a usage error
ParseArgs ==
    /\ pc = "parse"
    /\ IF argvOK
       THEN pc' = "validate_target" /\ exitStatus' = exitStatus
       ELSE Exit(2)
    /\ UNCHANGED <<argvOK, args, i, results, call, command, exc, ret, procs,
                   popens, calls, history, file, stdout, ioError>>

\* lines 147-148
ValidateTarget ==
    /\ pc = "validate_target"
    /\ IF validate_target(args.target)
       THEN pc' = "validate_tools" /\ exitStatus' = exitStatus
       ELSE Exit(1)
    /\ UNCHANGED <<argvOK, args, i, results, call, command, exc, ret, procs,
                   popens, calls, history, file, stdout, ioError>>

\* lines 150-151
ValidateTools ==
    /\ pc = "validate_tools"
    /\ IF validate_tools(args.tools)
       THEN pc' = "validate_ignore" /\ exitStatus' = exitStatus
       ELSE Exit(1)
    /\ UNCHANGED <<argvOK, args, i, results, call, command, exc, ret, procs,
                   popens, calls, history, file, stdout, ioError>>

\* mutant of ValidateIgnore: the ignore paths are not checked
ValidateIgnore_Skipped ==
    /\ pc = "validate_ignore"
    /\ pc' = "loop"
    /\ UNCHANGED <<argvOK, args, i, results, call, command, exc, ret, procs,
                   popens, calls, history, file, stdout, ioError, exitStatus>>

\* lines 153-156
ValidateIgnore ==
    /\ pc = "validate_ignore"
    /\ IF Len(args.ignore) > 0 /\ ~validate_ignore_paths(args.ignore)
       THEN Exit(1)
       ELSE pc' = "loop" /\ exitStatus' = exitStatus
    /\ UNCHANGED <<argvOK, args, i, results, call, command, exc, ret, procs,
                   popens, calls, history, file, stdout, ioError>>

\* lines 157-159: the next tool of the for loop, or the end of the loop
CallRunTool ==
    /\ pc = "loop"
    /\ IF i <= Len(args.tools)
       THEN /\ call' = [tool |-> args.tools[i], target |-> args.target,
                        ignore |-> args.ignore, output |-> args.output,
                        offensive |-> args.offensive]
            /\ calls' = Append(calls, args.tools[i])
            /\ pc' = "build"
       ELSE /\ pc' = "report"
            /\ UNCHANGED <<call, calls>>
    /\ UNCHANGED <<argvOK, args, i, results, command, exc, ret, procs, popens,
                   history, file, stdout, ioError, exitStatus>>

EmptyDict == [keys |-> <<>>, val |-> <<>>]

\* mutant of DictSet: results.setdefault(k, v), the first value is kept
DictSet_KeepFirst(d, k, v) ==
    IF \E n \in 1..Len(d.keys) : d.keys[n] = k
    THEN d
    ELSE [keys |-> Append(d.keys, k), val |-> Append(d.val, v)]

\* d[k] = v on a Python dict: a new key goes last, an old key keeps its place
DictSet(d, k, v) ==
    IF \E n \in 1..Len(d.keys) : d.keys[n] = k
    THEN [keys |-> d.keys,
          val |-> [n \in 1..Len(d.keys) |-> IF d.keys[n] = k THEN v ELSE d.val[n]]]
    ELSE [keys |-> Append(d.keys, k), val |-> Append(d.val, v)]

\* the dict main stores per tool (line 160)
ResultOf(r) ==
    [return_code |-> r.return_code, stdout |-> r.stdout, stderr |-> r.stderr]

\* mutant of Record: the loop is left at the first tool that fails
Record_StopOnFailure ==
    /\ pc = "return"
    /\ ret.kind = "return"
    /\ results' = DictSet(results, call.tool, ResultOf(ret))
    /\ history' = Append(history, [tool |-> call.tool, result |-> ResultOf(ret)])
    /\ i' = i + 1
    /\ pc' = IF ret.return_code # 0 THEN "report" ELSE "loop"
    /\ UNCHANGED <<argvOK, args, call, command, exc, ret, procs, popens, calls,
                   file, stdout, ioError, exitStatus>>

\* lines 159-165: the result of run_tool is stored under the tool's name
Record ==
    /\ pc = "return"
    /\ ret.kind = "return"
    /\ results' = DictSet(results, call.tool, ResultOf(ret))
    /\ history' = Append(history, [tool |-> call.tool, result |-> ResultOf(ret)])
    /\ i' = i + 1
    /\ pc' = "loop"
    /\ UNCHANGED <<argvOK, args, call, command, exc, ret, procs, popens, calls,
                   file, stdout, ioError, exitStatus>>

\* the width of the rule that ends a block (lines 176, 187)
RuleWidth == 40

\* lines 172-176 and 183-187: the five writes of one block
Block(tool, result) ==
    << "Results for " \o tool \o ":\n",
       "Return Code: " \o ToString(result.return_code) \o "\n",
       "Stdout:\n" \o result.stdout \o "\n",
       "Stderr:\n" \o result.stderr \o "\n",
       Repeat("-", RuleWidth) \o "\n" >>

\* for tool, result in results.items(): the blocks in the dict's order
Blocks(d) == Concat([n \in 1..Len(d.keys) |-> Block(d.keys[n], d.val[n])])

\* mutant of Report: the exit status is 1 when a tool returned nonzero
Report_ExitOnToolFailure ==
    /\ pc = "report"
    /\ IF args.output # ""
       THEN \E opens \in BOOLEAN :
              IF opens
              THEN /\ file' = Blocks(results)
                   /\ ioError' = ioError
                   /\ Exit(IF \E n \in 1..Len(results.val) :
                                results.val[n].return_code # 0
                           THEN 1 ELSE 0)
              ELSE /\ ioError' = TRUE
                   /\ file' = file
                   /\ Exit(1)
       ELSE /\ UNCHANGED <<file, ioError>>
            /\ Exit(0)
    /\ stdout' = IF args.output # "" THEN stdout ELSE Blocks(results)
    /\ UNCHANGED <<argvOK, args, i, results, call, command, exc, ret, procs,
                   popens, calls, history>>

\* mutant of Report: the output file is opened with "a" instead of "w"
Report_Append ==
    /\ pc = "report"
    /\ IF args.output # ""
       THEN \E opens \in BOOLEAN :
              IF opens
              THEN /\ file' = file \o Blocks(results)
                   /\ ioError' = ioError
                   /\ Exit(0)
              ELSE /\ ioError' = TRUE
                   /\ file' = file
                   /\ Exit(1)
       ELSE /\ UNCHANGED <<file, ioError>>
            /\ Exit(0)
    /\ stdout' = IF args.output # "" THEN stdout ELSE Blocks(results)
    /\ UNCHANGED <<argvOK, args, i, results, call, command, exc, ret, procs,
                   popens, calls, history>>

\* lines 168-189: the report, to the output file (opened with "w") or to stdout
Report ==
    /\ pc = "report"
    /\ IF args.output # ""
       THEN \E opens \in BOOLEAN :
              IF opens
              THEN /\ file' = Blocks(results)
                   /\ ioError' = ioError
                   /\ Exit(0)
              ELSE /\ ioError' = TRUE
                   /\ file' = file
                   /\ Exit(1)
       ELSE /\ UNCHANGED <<file, ioError>>
            /\ Exit(0)
    /\ stdout' = IF args.output # "" THEN stdout ELSE Blocks(results)
    /\ UNCHANGED <<argvOK, args, i, results, call, command, exc, ret, procs,
                   popens, calls, history>>

----------------------------------------------------------------------------
(* The specifications. *)

\* the namespaces argparse can produce (--tools and --ignore take nargs="+")
Configs ==
    [target : Targets,
     tools : SeqsUpTo(ToolNames, MaxTools) \ {<<>>},
     ignore : SeqsUpTo(IgnorePaths, MaxIgnore),
     output : Outputs,
     offensive : BOOLEAN]

\* the namespace of `main.py proj`: the defaults of setup_argparse
DefaultArgs ==
    [target |-> "proj", tools |-> ValidTools, ignore |-> <<>>, output |-> "",
     offensive |-> FALSE]

Idle ==
    /\ i = 1
    /\ results = EmptyDict
    /\ call = NoCall
    /\ command = <<>>
    /\ exc = NoExc
    /\ ret = NoRet
    /\ procs = {}
    /\ popens = <<>>
    /\ calls = <<>>
    /\ history = <<>>
    /\ file = <<>>
    /\ stdout = <<>>
    /\ ioError = FALSE
    /\ exitStatus = <<>>

\* the start of main: a command line argparse accepts, giving any namespace,
\* or one it rejects (`main.py proj --tools`)
Init ==
    /\ \/ argvOK = TRUE /\ args \in Configs
       \/ argvOK = FALSE /\ args = DefaultArgs
    /\ pc = "parse"
    /\ Idle

Next ==
    \/ ParseArgs
    \/ ValidateTarget
    \/ ValidateTools
    \/ ValidateIgnore
    \/ CallRunTool
    \/ RunToolBuild
    \/ Popen
    \/ Communicate
    \/ Except
    \/ Record
    \/ Report

Spec == Init /\ [][Next]_vars

\* the starts of main with at most one ignore path: the ignore list only
\* reaches the command line, which no step of main or run_tool reads back
FairInit ==
    /\ \/ argvOK = TRUE /\ args \in {c \in Configs : Len(c.ignore) <= 1}
       \/ argvOK = FALSE /\ args = DefaultArgs
    /\ pc = "parse"
    /\ Idle

\* every step of the single-threaded program is taken when it can be, and
\* every external process ends (communicate returns)
FairSpec == FairInit /\ [][Next]_vars /\ WF_vars(Next)

\* a direct call run_tool(tool, target, ignore, output, offensive)
InitTool ==
    /\ argvOK = TRUE
    /\ args = DefaultArgs
    /\ pc = "build"
    /\ \E c \in [tool : ToolNames, target : Targets,
                 ignore : SeqsUpTo(IgnorePaths, MaxIgnore), output : Outputs,
                 offensive : BOOLEAN] :
         /\ i = 1
         /\ results = EmptyDict
         /\ call = c
         /\ command = <<>>
         /\ exc = NoExc
         /\ ret = NoRet
         /\ procs = {}
         /\ popens = <<>>
         /\ calls = <<>>
         /\ history = <<>>
         /\ file = <<>>
         /\ stdout = <<>>
         /\ ioError = FALSE
         /\ exitStatus = <<>>

NextTool ==
    \/ RunToolBuild
    \/ Popen
    \/ Communicate
    \/ Except

ToolSpec == InitTool /\ [][NextTool]_vars

----------------------------------------------------------------------------
(* The claims. *)

\* the three validations of main, stated on the inputs
TargetExists == args.target \in FileSystem

ToolsValid == \A k \in 1..Len(args.tools) :
                 args.tools[k] \in {"bandit", "flake8", "pylint"}

IgnoreExists == \A k \in 1..Len(args.ignore) : args.ignore[k] \in FileSystem

InputsValid == TargetExists /\ ToolsValid /\ IgnoreExists

\* C1: no run_tool call and no subprocess launch happens before the target,
\* the tool names and the ignore paths have all been validated; a run in
\* which one of them is invalid ends with status 1, no run_tool call and no
\* subprocess launch.
C1_NoLaunchBeforeValidation ==
    /\ (calls # <<>> \/ popens # <<>> \/ procs # {})
          => /\ InputsValid
             /\ pc \notin {"parse", "validate_target", "validate_tools",
                           "validate_ignore"}
    /\ (pc = "exit" /\ argvOK /\ ~InputsValid)
          => /\ calls = <<>>
             /\ popens = <<>>
             /\ procs = {}
             /\ exitStatus = <<1>>

\* C1 witness: a run with a valid target and valid tools ended on a missing
\* ignore path, nothing launched
C1_Witness ==
    /\ pc = "exit"
    /\ argvOK /\ TargetExists /\ ToolsValid /\ ~IgnoreExists
    /\ popens = <<>>

C3_UnsupportedToolRaises ==
    (pc = "return" /\ call.tool \notin {"bandit", "flake8", "pylint"})
        => (ret.kind = "raise" /\ popens = <<>>)

\* C4: whenever an exception is pending in run_tool (the executable was not
\* found, or any other fault), run_tool returns (1, "", description) with a
\* non-empty description, and does not raise.
C4_FaultBecomesResult ==
    [][pc = "except" =>
          /\ pc' = "return"
          /\ ret'.kind = "return"
          /\ ret'.return_code = 1
          /\ ret'.stdout = ""
          /\ ret'.stderr # ""
          /\ ret'.stderr = exc.msg]_vars

\* C4 witness: run_tool returned after Popen failed with a permission error
C4_Witness ==
    /\ pc = "return"
    /\ Len(popens) = 1
    /\ ret = Returned(1, "", "[Errno 13] Permission denied: 'pylint'")

IsPrefix(s, t) == Len(s) <= Len(t) /\ \A k \in 1..Len(s) : s[k] = t[k]

ReportText == IF args.output # "" THEN file ELSE stdout

RECURSIVE FirstOccurrences(_)
\* the distinct elements of a sequence, in the order of their first occurrence
FirstOccurrences(s) ==
    IF Len(s) = 0 THEN <<>>
    ELSE LET rest == FirstOccurrences(SubSeq(s, 1, Len(s) - 1))
         IN IF \E k \in 1..Len(rest) : rest[k] = s[Len(s)]
            THEN rest ELSE Append(rest, s[Len(s)])

\* the result of the last invocation of a tool
LastResult(tool) ==
    LET last == CHOOSE k \in 1..Len(history) :
                   /\ history[k].tool = tool
                   /\ \A m \in (k + 1)..Len(history) : history[m].tool # tool
    IN history[last].result

Positions(cmd, token) == {k \in 1..Len(cmd) : cmd[k] = token}

RECURSIVE CommaJoined(_)
\* the paths written one after the other with a comma between neighbours
CommaJoined(paths) ==
    IF Len(paths) = 0 THEN ""
    ELSE IF Len(paths) = 1 THEN paths[1]
    ELSE CommaJoined(SubSeq(paths, 1, Len(paths) - 1)) \o "," \o paths[Len(paths)]

\* the exclusion flag of a tool
ExclusionFlag(tool) ==
    IF tool = "bandit" THEN "-x" ELSE IF tool = "flake8" THEN "--exclude"
    ELSE "--ignore"

\* C7: the command line of bandit holds one "-x" per ignore path, each
\* followed by its path, in list order; that of flake8 and pylint holds one
\* exclusion flag followed by the comma-join of the paths; with no ignore
\* list the command line holds no exclusion flag.
C7_ExclusionTokens ==
    (pc \in {"popen", "communicate"}) =>
        LET flags == Positions(command, ExclusionFlag(call.tool))
            n == Len(call.ignore)
        IN IF call.tool = "bandit"
           THEN /\ Cardinality(flags) = n
                /\ \E first \in 1..Len(command) :
                     /\ first + 2 * n - 1 <= Len(command)
                     /\ \A k \in 1..n :
                        /\ command[first + 2 * (k - 1)] = "-x"
                        /\ command[first + 2 * (k - 1) + 1] = call.ignore[k]
           ELSE IF n = 0
                THEN flags = {}
                ELSE /\ Cardinality(flags) = 1
                     /\ \A p \in flags :
                          /\ p < Len(command)
                          /\ command[p + 1] = CommaJoined(call.ignore)
                     /\ Cardinality(Positions(command, CommaJoined(call.ignore))) = 1

\* C7 witness: a flake8 command line built for two ignore paths
C7_Witness ==
    /\ pc = "popen"
    /\ call.tool = "flake8"
    /\ call.ignore = <<"tests", "docs">>
    /\ \E p \in 1..Len(command) : command[p] = "tests,docs"

\* the fixed first tokens of a tool's command line
BaseFlags(tool, target) ==
    IF tool = "bandit" THEN <<"bandit", "-r", target, "-q">>
    ELSE IF tool = "flake8" THEN <<"flake8", target>>
    ELSE <<"pylint", target, "--disable=all", "--enable=security", "--reports=n">>

\* C8: the command line starts with the tool's base flags around the target;
\* with offensive set bandit's command line continues with "-s" and the rule
\* list, without it it holds no "-s"; the command lines of flake8 and pylint
\* are the ones built with the flag inverted.
C8_BaseFlagsAndOffensive ==
    (pc \in {"popen", "communicate"}) =>
        LET base == BaseFlags(call.tool, call.target)
        IN /\ Len(command) >= Len(base)
           /\ SubSeq(command, 1, Len(base)) = base
           /\ IF call.tool = "bandit"
              THEN IF call.offensive
                   THEN /\ Len(command) >= 6
                        /\ command[5] = "-s"
                        /\ command[6] = "B101,B301,B603,B605,B608"
                   ELSE Positions(command, "-s") = {}
              ELSE command = BuildCommand(call.tool, call.target, call.ignore,
                                          call.output, ~call.offensive)

\* C8 witness: a pylint command line built with offensive set
C8_Witness ==
    /\ pc = "popen"
    /\ call.tool = "pylint"
    /\ call.offensive
    /\ call.ignore # <<>>
    /\ call.output # ""

\* C9: at most one external process is live; a process is live only while
\* run_tool waits for it; a launch happens only when every earlier call has
\* returned and been recorded; no process is live at the report or after it.
C9_OneProcessAtATime ==
    /\ Cardinality(procs) <= 1
    /\ procs # {} => (pc = "communicate" /\ \A p \in procs : p.id = Len(popens))
    /\ pc \in {"popen", "communicate"}
          => (Len(history) = Len(calls) - 1 /\ Len(results.keys) <= Len(history))
    /\ pc = "popen" => procs = {}
    /\ pc \in {"report", "exit"} => procs = {}

\* C9 witness: the second tool's process is live, the first tool's result
\* recorded
C9_Witness ==
    /\ procs # {}
    /\ Len(history) = 1
    /\ Len(popens) = 2

\* the flag that hands a tool its report destination
OutputFlag(tool) ==
    IF tool = "bandit" THEN "-o" ELSE IF tool = "flake8" THEN "--output-file"
    ELSE "--output"

\* C10: with an output path, every launched command line hands that path to
\* the tool as its report destination, the tools write to the file only
\* before the report, and after a completed run the file holds exactly the
\* blocks main wrote, none of the tools' own reports.
C10_OutputFileOverwritten ==
    args.output # "" =>
        /\ \A k \in 1..Len(popens) :
             \E p \in 1..(Len(popens[k]) - 1) :
                /\ popens[k][p] = OutputFlag(popens[k][1])
                /\ popens[k][p + 1] = args.output
        /\ (pc = "exit" /\ exitStatus = <<0>>) =>
             /\ file = Blocks(results)
             /\ Len(file) = 5 * Len(results.keys)
             /\ \A k \in 1..Len(file) :
                  \A t \in ToolNames : file[k] # NativeReport(t)
             /\ procs = {}

\* C10 witness: a completed run with an output path in which a tool ran to
\* its end, and so wrote its own report to the path
C10_Witness ==
    /\ pc = "exit"
    /\ exitStatus = <<0>>
    /\ args.output # ""
    /\ \E k \in 1..Len(history) : history[k].result.stdout = "findings"

====
